---- MODULE Spec2Model ----
(***************************************************************************)
(* Birthday Matters (src/birthday_matters.py): the occurrence calculator   *)
(* get_next_birthday, the trigger policy should_notify, the reminder sweep *)
(* check_birthdays, the daily scheduler thread scheduler_loop and the GUI  *)
(* handlers add_birthday / delete_birthday that share the birthdays dict.  *)
(***************************************************************************)
EXTENDS Integers, Sequences, FiniteSets, TLC

(***************************************************************************)
(* Civil calendar: datetime.date as the code uses it (strptime, replace,   *)
(* comparison, subtraction).                                               *)
(***************************************************************************)

\* a date is [year, month, day]; a date string "YYYY-MM-DD" is the same
\* record, possibly naming a day that does not exist (2023-02-30)
Date(y, m, d) == [year |-> y, month |-> m, day |-> d]

NoDate == Date(0, 0, 0)

IsLeap(y) == (y % 4 = 0) /\ ((y % 100 # 0) \/ (y % 400 = 0))

DaysInMonth(y, m) ==
    IF m = 2 THEN (IF IsLeap(y) THEN 29 ELSE 28)
    ELSE IF m \in {4, 6, 9, 11} THEN 30 ELSE 31

\* strptime(date_str, "%Y-%m-%d") succeeds
ValidDate(dt) ==
    /\ dt.year >= 1
    /\ dt.month \in 1..12
    /\ dt.day >= 1
    /\ dt.day <= DaysInMonth(dt.year, dt.month)

DaysBeforeYear(y) ==
    365 * (y - 1) + ((y - 1) \div 4) - ((y - 1) \div 100) + ((y - 1) \div 400)

RECURSIVE DaysBeforeMonth(_, _)
DaysBeforeMonth(y, m) ==
    IF m <= 1 THEN 0 ELSE DaysBeforeMonth(y, m - 1) + DaysInMonth(y, m - 1)

\* date.toordinal(): the day number the code's comparisons and subtractions
\* of dates work on
ToOrdinal(dt) == DaysBeforeYear(dt.year) + DaysBeforeMonth(dt.year, dt.month) + dt.day

\* date.fromordinal(n): the date with day number n
FromOrdinal(n) ==
    LET y == CHOOSE yy \in ((n - 1) \div 366 + 1)..((n - 1) \div 365 + 1) :
                 DaysBeforeYear(yy) < n /\ n <= DaysBeforeYear(yy + 1)
        m == CHOOSE mm \in 1..12 :
                 /\ DaysBeforeYear(y) + DaysBeforeMonth(y, mm) < n
                 /\ n <= DaysBeforeYear(y) + DaysBeforeMonth(y, mm) + DaysInMonth(y, mm)
    IN  Date(y, m, n - DaysBeforeYear(y) - DaysBeforeMonth(y, m))

\* dt + datetime.timedelta(days=n)
AddDays(dt, n) == FromOrdinal(ToOrdinal(dt) + n)

\* the result of a call that may raise: ok = FALSE is the exception
Ok(v) == [ok |-> TRUE, val |-> v]

Raise == [ok |-> FALSE, val |-> NoDate]

\* d.replace(year=y): ValueError when the day does not exist in year y
ReplaceYear(dt, y) ==
    IF ValidDate(Date(y, dt.month, dt.day)) THEN Ok(Date(y, dt.month, dt.day)) ELSE Raise

(***************************************************************************)
(* Lunisolar calendar: LunarDate.fromSolarDate and toSolarDate, over the   *)
(* window of lunisolar years 2023..2025 (22 Jan 2023 .. 16 Feb 2026).      *)
(***************************************************************************)

\* the lunisolar years of the window
LunarYears == 2023..2025

\* the leap month of a lunisolar year (0: none)
LunarLeapMonth(ly) == IF ly = 2023 THEN 2 ELSE IF ly = 2025 THEN 6 ELSE 0

\* the civil date of the first day of the lunisolar year
LunarNewYear(ly) ==
    IF ly = 2023 THEN Date(2023, 1, 22)
    ELSE IF ly = 2024 THEN Date(2024, 2, 10)
    ELSE IF ly = 2025 THEN Date(2025, 1, 29)
    ELSE Date(2026, 2, 17)

\* the lengths of the months of a lunisolar year, in calendar order (the leap
\* month follows the month it repeats)
LunarMonthDays(ly) ==
    IF ly = 2023 THEN <<29, 30, 29, 29, 30, 30, 29, 30, 30, 29, 30, 29, 30>>
    ELSE IF ly = 2024 THEN <<29, 30, 29, 29, 30, 29, 30, 30, 29, 30, 30, 29>>
    ELSE <<30, 29, 30, 29, 29, 30, 29, 30, 29, 30, 30, 30, 29>>

\* position of (month, isLeapMonth) in the year's calendar order; 0 when the
\* year has no such month
LunarMonthIndex(ly, m, leap) ==
    LET lm == LunarLeapMonth(ly) IN
    IF m \notin 1..12 THEN 0
    ELSE IF leap THEN (IF lm = m THEN m + 1 ELSE 0)
    ELSE IF lm # 0 /\ m > lm THEN m + 1 ELSE m

\* the (month, isLeapMonth) at a position of the year's calendar order
LunarMonthAt(ly, i) ==
    LET lm == LunarLeapMonth(ly) IN
    IF lm = 0 \/ i <= lm THEN [month |-> i, leap |-> FALSE]
    ELSE IF i = lm + 1 THEN [month |-> lm, leap |-> TRUE]
    ELSE [month |-> i - 1, leap |-> FALSE]

RECURSIVE LunarDaysBefore(_, _)
LunarDaysBefore(ly, i) ==
    IF i <= 1 THEN 0 ELSE LunarDaysBefore(ly, i - 1) + LunarMonthDays(ly)[i - 1]

LunarYearDays(ly) == LunarDaysBefore(ly, Len(LunarMonthDays(ly)) + 1)

Lunar(ly, m, d, leap) == [year |-> ly, month |-> m, day |-> d, leap |-> leap]

\* LunarDate.fromSolarDate(year, month, day): the lunisolar date of a civil
\* date of the window
InLunarWindow(dt) ==
    \E y \in LunarYears :
        /\ ToOrdinal(LunarNewYear(y)) <= ToOrdinal(dt)
        /\ ToOrdinal(dt) < ToOrdinal(LunarNewYear(y + 1))

fromSolarDate(dt) ==
    LET ly  == CHOOSE y \in LunarYears :
                   /\ ToOrdinal(LunarNewYear(y)) <= ToOrdinal(dt)
                   /\ ToOrdinal(dt) < ToOrdinal(LunarNewYear(y + 1))
        off == ToOrdinal(dt) - ToOrdinal(LunarNewYear(ly))
        i   == CHOOSE k \in 1..Len(LunarMonthDays(ly)) :
                   /\ LunarDaysBefore(ly, k) <= off
                   /\ off < LunarDaysBefore(ly, k + 1)
        md  == LunarMonthAt(ly, i)
    IN  Lunar(ly, md.month, off - LunarDaysBefore(ly, i) + 1, md.leap)

\* lunar_date.toSolarDate(year): the civil date of the lunisolar month/day of
\* lunar_date in lunisolar year `year`; ValueError when that year has no such
\* month (a leap month) or the month has no such day (day 30 of a 29-day month)
toSolarDate(ld, year) ==
    LET i == LunarMonthIndex(year, ld.month, ld.leap) IN
    IF i = 0 THEN Raise
    ELSE IF ld.day < 1 \/ ld.day > LunarMonthDays(year)[i] THEN Raise
    ELSE Ok(AddDays(LunarNewYear(year), LunarDaysBefore(year, i) + ld.day - 1))

(***************************************************************************)
(* get_next_birthday(date_str, lunar), with the value datetime.date.today() *)
(* returns at the call as the parameter today.                             *)
(***************************************************************************)

\* the lunar branch (lines 76-81)
NextLunar(date_str, today) ==
    IF ~ValidDate(date_str) THEN Raise
    ELSE LET lunar_date == fromSolarDate(date_str)
             solar      == toSolarDate(lunar_date, today.year)
         IN  IF ~solar.ok THEN Raise
             ELSE IF ToOrdinal(solar.val) < ToOrdinal(today)
                  THEN toSolarDate(lunar_date, today.year + 1)
                  ELSE solar

\* the solar branch (lines 83-85)
NextSolar(date_str, today) ==
    IF ~ValidDate(date_str) THEN Raise
    ELSE LET this_year == ReplaceYear(date_str, today.year) IN
         IF ~this_year.ok THEN Raise
         ELSE IF ToOrdinal(this_year.val) >= ToOrdinal(today) THEN this_year
              ELSE ReplaceYear(date_str, today.year + 1)

get_next_birthday(date_str, lunar, today) ==
    IF lunar THEN NextLunar(date_str, today) ELSE NextSolar(date_str, today)

(***************************************************************************)
(* should_notify(days_left, priority), with the module global REMIND_RULES *)
(* as the parameter rules: a function from the configured priorities to    *)
(* their sets of day offsets.                                              *)
(***************************************************************************)

\* REMIND_RULES.get(priority, []): the default set forgotten
RulesGetNoDefault(rules, priority) ==
    IF priority \in DOMAIN rules THEN rules[priority] ELSE {}

\* REMIND_RULES.get(priority, [0])
RulesGet(rules, priority) ==
    IF priority \in DOMAIN rules THEN rules[priority] ELSE {0}

should_notify(days_left, priority, rules) == days_left \in RulesGet(rules, priority)

(***************************************************************************)
(* Bounds of the model.                                                    *)
(***************************************************************************)

\* ticks of the clock per calendar day (a tick is half of the loop's sleep)
DayLen == 4

\* calendar days a behaviour covers
MaxDays == 3

\* longest time, in ticks, a reminder pop-up stays open
MaxBlock == 2

\* GUI operations (add_birthday, delete_birthday) per behaviour
MaxGuiOps == 2

\* time.sleep(60), in ticks
SleepTicks == 2

MaxTime == MaxDays * DayLen

\* the calendar day the process is started on
StartDate == Date(2024, 2, 28)

(***************************************************************************)
(* The birthdays dict: the entries in insertion order; a deleted entry     *)
(* leaves a dead slot behind, as in CPython's dict.                        *)
(***************************************************************************)

Entry(name, date, lunar, priority) ==
    [name |-> name, date |-> date, lunar |-> lunar, priority |-> priority, live |-> TRUE]

Tomb == [name |-> <<>>, date |-> NoDate, lunar |-> FALSE, priority |-> 0, live |-> FALSE]

IsLive(e) == e.live

\* birthdays.items()
Items(b) == SelectSeq(b, IsLive)

\* len(birthdays)
Used(b) == Len(Items(b))

\* the slot of key name; 0 when the key is absent
IndexOf(b, name) ==
    IF \E i \in 1..Len(b) : b[i].live /\ b[i].name = name
    THEN CHOOSE i \in 1..Len(b) : b[i].live /\ b[i].name = name
    ELSE 0

\* birthdays[name] = {...} as a list would do it: always appended
DictSetAppend(b, e) == Append(b, e)

\* birthdays[name] = {...}: an existing key keeps its place, a new key is
\* appended
DictSet(b, e) ==
    IF IndexOf(b, e.name) # 0 THEN [b EXCEPT ![IndexOf(b, e.name)] = e] ELSE Append(b, e)

\* birthdays.pop(name, None)
DictPop(b, name) ==
    IF IndexOf(b, name) # 0 THEN [b EXCEPT ![IndexOf(b, name)] = Tomb] ELSE b

\* the first live slot at or after position i; Len(b) + 1 when there is none
RECURSIVE NextLive(_, _)
NextLive(b, i) ==
    IF i > Len(b) THEN Len(b) + 1
    ELSE IF b[i].live THEN i ELSE NextLive(b, i + 1)

(***************************************************************************)
(* Strings: a name or a list row is a sequence of tokens; " " is a blank   *)
(* and " | " the separator refresh_list puts between the fields of a row.  *)
(***************************************************************************)

RECURSIVE LStrip(_)
LStrip(s) == IF s # <<>> /\ Head(s) = " " THEN LStrip(Tail(s)) ELSE s

RECURSIVE RStrip(_)
RStrip(s) ==
    IF s # <<>> /\ s[Len(s)] = " " THEN RStrip(SubSeq(s, 1, Len(s) - 1)) ELSE s

\* str.strip()
Strip(s) == RStrip(LStrip(s))

\* s.split(" | ")[0]
RECURSIVE SplitFirst(_)
SplitFirst(s) ==
    IF s = <<>> \/ Head(s) = " | " THEN <<>> ELSE <<Head(s)>> \o SplitFirst(Tail(s))

\* f"{name} | {info['date']} | {tag} | {stars}"
RowText(e) == e.name \o <<" | ", "date", " | ", "tag", " | ", "stars">>

RECURSIVE RowsFrom(_, _)
RowsFrom(items, p) ==
    IF p < 1 THEN <<>>
    ELSE LET HasP(e) == e.priority = p
         IN  SelectSeq(items, HasP) \o RowsFrom(items, p - 1)

\* sorted(birthdays.items(), key=lambda x: -x[1]["priority"]): stable, by
\* falling priority
SortedItems(b) == RowsFrom(Items(b), 5)

RECURSIVE MapRowText(_)
MapRowText(items) ==
    IF items = <<>> THEN <<>> ELSE <<RowText(Head(items))>> \o MapRowText(Tail(items))

\* the rows refresh_list leaves in the listbox
refresh_list(b) == MapRowText(SortedItems(b))

(***************************************************************************)
(* State.                                                                  *)
(***************************************************************************)

VARIABLES
    now,          \* the wall clock, in ticks since 00:00 of StartDate
    NOTIFY_TIME,  \* config "notify_time", as the tick of the day
    REMIND_RULES, \* config "remind_rules"
    configFile,   \* what config.json was when the program loaded it
    app,          \* "running", or "exit" when the module's top level raised
    birthdays,    \* the in-memory record set, shared by both threads
    dataFile,     \* the records birthdays.json holds
    listbox,      \* the rows of the GUI list
    pc,           \* where the scheduler thread is
    next_run,     \* the job's next_run
    today,        \* check_birthdays: its local today
    it,           \* check_birthdays: the iterator of birthdays.items()
    sweepStarts,  \* history: per day, how often check_birthdays was started
    snapshot,     \* history: birthdays.items() when the running sweep started
    evaluated,    \* history: the records the sweep has handed to get_next_birthday
    reminders,    \* history: the notify(name, days_left, priority) calls of the sweep
    outcome,      \* history: "none", "running", "done" or "failed" (last sweep)
    cause,        \* history: what made the sweep fail
    computed,     \* history: the days_left line 135 computed, per record
    active,       \* history: calls of check_birthdays that have not ended
    edited,       \* history: a GUI handler changed birthdays during the sweep
    guiOps,       \* history: GUI handlers run so far
    lastOp,       \* history: what the last GUI handler did
    lastArg,      \* history: the input of the last add_birthday
    lastSel,      \* history: the row selected at the last delete_birthday
    calcArg,      \* the arguments of a call of get_next_birthday
    calcRet,      \* what that call returned
    polArg,       \* the arguments of a call of should_notify
    polRet        \* what that call returned

vars == <<now, NOTIFY_TIME, REMIND_RULES, configFile, app, birthdays, dataFile, listbox, pc, next_run,
          today, it, sweepStarts, snapshot, evaluated, reminders, outcome, cause,
          computed, active, edited, guiOps, lastOp, lastArg, lastSel, calcArg, calcRet, polArg, polRet>>

schedVars == <<pc, next_run, today, it>>

sweepHist == <<sweepStarts, snapshot, evaluated, reminders, outcome, cause, computed, active>>

guiVars == <<birthdays, dataFile, listbox, guiOps, lastOp, lastArg, lastSel>>

config == <<NOTIFY_TIME, REMIND_RULES, configFile, app>>

pureVars == <<calcArg, calcRet, polArg, polRet>>

(***************************************************************************)
(* The records and configurations the behaviours start from.               *)
(***************************************************************************)

\* 29 February, solar
recA == Entry(<<"a">>, Date(2000, 2, 29), FALSE, 3)

\* 1 March, solar
recB == Entry(<<"b">>, Date(1990, 3, 1), FALSE, 5)

\* 10 Feb 2023 = day 20 of month 1, lunar (29 Feb 2024, 17 Feb 2025)
recC == Entry(<<"c">>, Date(2023, 2, 10), TRUE, 3)

\* 1 Apr 2023 = day 11 of leap month 2, lunar: a month 2024 does not have
recL == Entry(<<"c">>, Date(2023, 4, 1), TRUE, 3)

\* 28 February, solar
recD == Entry(<<"d">>, Date(1995, 2, 28), FALSE, 4)

\* a record of a hand-written data file: 30 February, priority 9
recX == Entry(<<"x">>, Date(2023, 2, 30), FALSE, 9)

\* what load_json(DATA_FILE, {}) may return
InitialBirthdays ==
    { <<>>, <<recA, recB>>, <<recL, recB>>, <<recD, recC>>, <<recX>> }

\* what config.json may be when line 32 loads it: absent, unreadable or not
\* JSON ("missing"), usable ("ok"), with a remind_rules key that is not an
\* integer ("bad_key"), or with a notify_time that is no time of day
\* ("bad_time")
ConfigFiles == {"missing", "ok", "bad_key", "bad_time"}

\* the default "09:00" of line 36, as the tick of the day
DefaultNotifyTime == (9 * DayLen) \div 24

\* a notify_time such as "24:00"
BadTime == DayLen

\* the schedule library's check of the argument of at()
ValidTime(T) == T \in 0..(DayLen - 1)

\* line 36: NOTIFY_TIME after loading the file f
notify_time(f) ==
    CASE f = "ok" -> 0..(DayLen - 1)
      [] f = "bad_time" -> {BadTime}
      [] OTHER -> {DefaultNotifyTime}

\* what the config file may set remind_rules to
RuleSets ==
    { [p \in {} |-> {}], [p \in {3, 5} |-> IF p = 3 THEN {0, 1} ELSE {0, 1, 2}] }

\* lines 37-39: REMIND_RULES after loading the file f
remind_rules(f) ==
    IF f \in {"ok", "bad_time"} THEN RuleSets ELSE { [p \in {} |-> {}] }

\* lines 37-39: int(k) raises ValueError for a key that is not an integer,
\* nothing catches it and the interpreter exits
LoadOutcome(f) == IF f = "bad_key" THEN "exit" ELSE "running"

NoInput == [name |-> <<>>, date |-> NoDate, lunar |-> FALSE, priority |-> 0]

\* what the user may have typed and ticked when pressing "add"
AddInputs ==
    { [name |-> <<"a">>, date |-> Date(2024, 3, 1), lunar |-> FALSE, priority |-> 1],
      [name |-> <<" ", "b">>, date |-> Date(2000, 2, 29), lunar |-> FALSE, priority |-> 5],
      [name |-> <<"e">>, date |-> Date(2024, 2, 29), lunar |-> TRUE, priority |-> 3],
      [name |-> <<"a", " | ", "b">>, date |-> Date(1990, 2, 28), lunar |-> FALSE, priority |-> 3],
      [name |-> <<" ">>, date |-> Date(2024, 3, 1), lunar |-> FALSE, priority |-> 3],
      [name |-> <<>>, date |-> Date(2024, 3, 1), lunar |-> FALSE, priority |-> 3],
      [name |-> <<"b">>, date |-> Date(2023, 2, 30), lunar |-> FALSE, priority |-> 3] }

NoIter == [pos |-> 0, used |-> 0, len |-> 0]

NoCalcArg == [date |-> NoDate, lunar |-> FALSE, today |-> NoDate]

NoPolArg == [days_left |-> 0, priority |-> 0]

Event(name, days_left, priority) ==
    [name |-> name, days_left |-> days_left, priority |-> priority]

\* datetime.date.today()
Today(t) == AddDays(StartDate, t \div DayLen)

DayOf(t) == t \div DayLen

PureIdle ==
    /\ calcArg = NoCalcArg
    /\ calcRet = [called |-> FALSE, ok |-> FALSE, val |-> NoDate]
    /\ polArg = NoPolArg
    /\ polRet = [called |-> FALSE, val |-> FALSE]

\* the program after line 244: both files loaded, the list filled, the
\* scheduler thread started
Init ==
    /\ now \in 0..(DayLen - 1)
    /\ configFile \in ConfigFiles
    /\ app = LoadOutcome(configFile)
    /\ NOTIFY_TIME \in notify_time(configFile)
    /\ REMIND_RULES \in remind_rules(configFile)
    /\ birthdays \in InitialBirthdays
    /\ dataFile = Items(birthdays)
    /\ listbox = refresh_list(birthdays)
    /\ pc = "start"
    /\ next_run = -1
    /\ today = NoDate
    /\ it = NoIter
    /\ sweepStarts = [d \in 0..MaxDays |-> 0]
    /\ snapshot = <<>>
    /\ evaluated = <<>>
    /\ reminders = <<>>
    /\ outcome = "none"
    /\ cause = "none"
    /\ computed = <<>>
    /\ active = 0
    /\ edited = FALSE
    /\ guiOps = 0
    /\ lastOp = "none"
    /\ lastArg = NoInput
    /\ lastSel = 0
    /\ PureIdle

(***************************************************************************)
(* The scheduler thread: scheduler_loop, the job of the schedule library,  *)
(* check_birthdays and notify.                                             *)
(***************************************************************************)

\* the schedule library's next_run of a daily job at time T, computed at time
\* t: the first instant after t whose time of day is T
NextAt(t, T) ==
    IF t % DayLen < T THEN DayOf(t) * DayLen + T ELSE (DayOf(t) + 1) * DayLen + T

\* line 144: schedule.every().day.at(NOTIFY_TIME).do(check_birthdays)
RegisterJob ==
    /\ app = "running"
    /\ pc = "start"
    /\ ValidTime(NOTIFY_TIME)
    /\ next_run' = NextAt(now, NOTIFY_TIME)
    /\ pc' = "poll"
    /\ UNCHANGED <<now, today, it, config, guiVars, sweepHist, edited, pureVars>>

\* line 144: at() raises for a string that is no time of day; nothing in
\* scheduler_loop catches it and the thread ends
RegisterRaises ==
    /\ app = "running"
    /\ pc = "start"
    /\ ~ValidTime(NOTIFY_TIME)
    /\ pc' = "dead"
    /\ UNCHANGED <<now, next_run, today, it, config, guiVars, sweepHist, edited, pureVars>>

\* line 146: schedule.run_pending() when the job is not due
RunPendingIdle ==
    /\ pc = "poll"
    /\ now < next_run
    /\ pc' = "sleep"
    /\ UNCHANGED <<now, next_run, today, it, config, guiVars, sweepHist, edited, pureVars>>

\* the job started whenever it is due, also while a call of it is running
\* (as a scheduler that runs each job in a thread of its own would)
JobDueOverlapping == now >= next_run /\ pc \in {"poll", "iter", "notify", "popup"}

\* line 146, in the scheduler thread's loop: the job is due (should_run)
JobDue == pc = "poll" /\ now >= next_run

\* line 146 with the job due: check_birthdays is called (lines 132-133: it
\* reads today and creates the iterator of birthdays.items())
StartSweep ==
    /\ JobDue
    /\ today' = Today(now)
    /\ it' = [pos |-> 1, used |-> Used(birthdays), len |-> Used(birthdays)]
    /\ pc' = "iter"
    /\ sweepStarts' = [sweepStarts EXCEPT ![DayOf(now)] = @ + 1]
    /\ snapshot' = Items(birthdays)
    /\ evaluated' = <<>>
    /\ reminders' = <<>>
    /\ outcome' = "running"
    /\ cause' = "none"
    /\ computed' = <<>>
    /\ active' = active + 1
    /\ edited' = FALSE
    /\ UNCHANGED <<now, next_run, config, guiVars, pureVars>>

\* an exception leaves check_birthdays, the job, run_pending and
\* scheduler_loop (none of them catches it): the thread ends
SweepRaises(why) ==
    /\ pc' = "dead"
    /\ outcome' = "failed"
    /\ cause' = why
    /\ active' = active - 1

\* line 133, next(iterator): the dict changed size since the iterator was
\* created (RuntimeError)
IterSizeChanged ==
    /\ pc = "iter"
    /\ it.used # Used(birthdays)
    /\ SweepRaises("size")
    /\ UNCHANGED <<now, next_run, today, it, config, guiVars, sweepStarts, snapshot, computed,
                   evaluated, reminders, edited, pureVars>>

\* line 133, next(iterator): no entry is left; check_birthdays returns, the
\* job records the run and computes its next_run, run_pending returns
IterEnd ==
    /\ pc = "iter"
    /\ it.used = Used(birthdays)
    /\ NextLive(birthdays, it.pos) > Len(birthdays)
    /\ next_run' = NextAt(now, NOTIFY_TIME)
    /\ pc' = "sleep"
    /\ outcome' = "done"
    /\ active' = active - 1
    /\ UNCHANGED <<now, today, it, config, guiVars, sweepStarts, snapshot, computed, evaluated,
                   reminders, cause, edited, pureVars>>

\* line 133, next(iterator): an entry is left though the iterator has
\* yielded as many as the dict held (RuntimeError)
IterKeysChanged ==
    /\ pc = "iter"
    /\ it.used = Used(birthdays)
    /\ NextLive(birthdays, it.pos) <= Len(birthdays)
    /\ it.len = 0
    /\ SweepRaises("keys")
    /\ UNCHANGED <<now, next_run, today, it, config, guiVars, sweepStarts, snapshot, computed,
                   evaluated, reminders, edited, pureVars>>

\* the iterator yields the entry at slot i
Yields(i) ==
    /\ pc = "iter"
    /\ it.used = Used(birthdays)
    /\ i = NextLive(birthdays, it.pos)
    /\ i <= Len(birthdays)
    /\ it.len > 0

\* lines 134-136 for the entry the iterator yields
NextBd(e) == get_next_birthday(e.date, e.lunar, Today(now))

DaysLeft(e) == ToOrdinal(NextBd(e).val) - ToOrdinal(today)

\* line 135: the days_left computed for the entry e
Computed(e, days_left) == [entry |-> e, days_left |-> days_left]

\* line 134: get_next_birthday raises
IterCalcRaises ==
    /\ \E i \in 1..Len(birthdays) :
          /\ Yields(i)
          /\ ~NextBd(birthdays[i]).ok
          /\ it' = [it EXCEPT !.pos = i + 1, !.len = @ - 1]
          /\ evaluated' = Append(evaluated, birthdays[i])
    /\ SweepRaises("calc")
    /\ UNCHANGED <<now, next_run, today, config, guiVars, sweepStarts, snapshot, computed,
                   reminders, edited, pureVars>>

\* a sweep that drops the record it found not due
IterSkipPops ==
    /\ \E i \in 1..Len(birthdays) :
          /\ Yields(i)
          /\ NextBd(birthdays[i]).ok
          /\ ~should_notify(DaysLeft(birthdays[i]), birthdays[i].priority, REMIND_RULES)
          /\ it' = [it EXCEPT !.pos = i + 1, !.len = @ - 1]
          /\ evaluated' = Append(evaluated, birthdays[i])
          /\ computed' = Append(computed, Computed(birthdays[i], DaysLeft(birthdays[i])))
          /\ birthdays' = DictPop(birthdays, birthdays[i].name)
    /\ UNCHANGED <<now, pc, next_run, today, config, dataFile, listbox, guiOps, lastOp,
                   lastArg, lastSel, sweepStarts, snapshot, active, reminders, outcome,
                   cause, edited, pureVars>>

\* lines 134-136: should_notify is false, on to the next entry
IterSkip ==
    /\ \E i \in 1..Len(birthdays) :
          /\ Yields(i)
          /\ NextBd(birthdays[i]).ok
          /\ ~should_notify(DaysLeft(birthdays[i]), birthdays[i].priority, REMIND_RULES)
          /\ it' = [it EXCEPT !.pos = i + 1, !.len = @ - 1]
          /\ evaluated' = Append(evaluated, birthdays[i])
          /\ computed' = Append(computed, Computed(birthdays[i], DaysLeft(birthdays[i])))
    /\ UNCHANGED <<now, pc, next_run, today, config, guiVars, sweepStarts, snapshot, active,
                   reminders, outcome, cause, edited, pureVars>>

\* lines 134-137: should_notify is true, notify is called
IterNotify ==
    /\ \E i \in 1..Len(birthdays) :
          /\ Yields(i)
          /\ NextBd(birthdays[i]).ok
          /\ should_notify(DaysLeft(birthdays[i]), birthdays[i].priority, REMIND_RULES)
          /\ it' = [it EXCEPT !.pos = i + 1, !.len = @ - 1]
          /\ evaluated' = Append(evaluated, birthdays[i])
          /\ computed' = Append(computed, Computed(birthdays[i], DaysLeft(birthdays[i])))
          /\ reminders' = Append(reminders,
                 Event(birthdays[i].name, DaysLeft(birthdays[i]), birthdays[i].priority))
    /\ pc' = "notify"
    /\ UNCHANGED <<now, next_run, today, config, guiVars, sweepStarts, snapshot, active,
                   outcome, cause, edited, pureVars>>

\* lines 108-112 or 129: the desktop notification (or the beep) raises
NotifyRaises ==
    /\ pc = "notify"
    /\ SweepRaises("notify")
    /\ UNCHANGED <<now, next_run, today, it, config, guiVars, sweepStarts, snapshot, computed,
                   evaluated, reminders, edited, pureVars>>

\* lines 118-120: messagebox.showinfo opens the pop-up and waits for the
\* user to dismiss it
PopupOpens ==
    /\ pc = "notify"
    /\ pc' = "popup"
    /\ UNCHANGED <<now, next_run, today, it, config, guiVars, sweepHist, edited, pureVars>>

\* lines 117-123: tkinter raises and the except swallows it; notify returns
PopupFails ==
    /\ pc = "notify"
    /\ pc' = "iter"
    /\ UNCHANGED <<now, next_run, today, it, config, guiVars, sweepHist, edited, pureVars>>

\* lines 120-129: the user dismisses the pop-up after it was open for k
\* ticks, and notify returns
NotifyReturns ==
    /\ pc = "popup"
    /\ \E k \in 0..MaxBlock :
          /\ now + k <= MaxTime
          /\ now' = now + k
    /\ pc' = "iter"
    /\ UNCHANGED <<next_run, today, it, config, guiVars, sweepHist, edited, pureVars>>

\* line 147: time.sleep(60)
Sleep ==
    /\ pc = "sleep"
    /\ now + SleepTicks <= MaxTime
    /\ now' = now + SleepTicks
    /\ pc' = "poll"
    /\ UNCHANGED <<next_run, today, it, config, guiVars, sweepHist, edited, pureVars>>

(***************************************************************************)
(* The GUI thread: the handlers of the two buttons.                        *)
(***************************************************************************)

\* the records changed while a sweep is between its first and last step
EditsSweep(b) == outcome = "running" /\ b # birthdays

\* lines 159-161: the name is empty after strip()
AddEmptyName ==
    /\ app = "running"
    /\ guiOps < MaxGuiOps
    /\ \E in \in AddInputs :
          /\ Strip(in.name) = <<>>
          /\ lastArg' = in
    /\ guiOps' = guiOps + 1
    /\ lastOp' = "empty_name"
    /\ UNCHANGED <<now, schedVars, config, birthdays, dataFile, listbox, lastSel,
                   sweepHist, edited, pureVars>>

\* lines 163-167: the date does not parse
AddDateError ==
    /\ app = "running"
    /\ guiOps < MaxGuiOps
    /\ \E in \in AddInputs :
          /\ Strip(in.name) # <<>>
          /\ ~ValidDate(in.date)
          /\ lastArg' = in
    /\ guiOps' = guiOps + 1
    /\ lastOp' = "date_error"
    /\ UNCHANGED <<now, schedVars, config, birthdays, dataFile, listbox, lastSel,
                   sweepHist, edited, pureVars>>

\* lines 169-175: the record is stored, saved and the list refreshed
AddStored ==
    /\ app = "running"
    /\ guiOps < MaxGuiOps
    /\ \E in \in AddInputs :
          /\ Strip(in.name) # <<>>
          /\ ValidDate(in.date)
          /\ birthdays' = DictSet(birthdays,
                 Entry(Strip(in.name), in.date, in.lunar, in.priority))
          /\ lastArg' = in
    /\ dataFile' = Items(birthdays')
    /\ listbox' = refresh_list(birthdays')
    /\ edited' = (edited \/ EditsSweep(birthdays'))
    /\ guiOps' = guiOps + 1
    /\ lastOp' = "add"
    /\ UNCHANGED <<now, schedVars, config, lastSel, sweepHist, pureVars>>

add_birthday == AddEmptyName \/ AddDateError \/ AddStored

\* lines 178-180: no row is selected
DeleteNoSelection ==
    /\ app = "running"
    /\ guiOps < MaxGuiOps
    /\ guiOps' = guiOps + 1
    /\ lastOp' = "no_selection"
    /\ lastSel' = 0
    /\ UNCHANGED <<now, schedVars, config, birthdays, dataFile, listbox, lastArg,
                   sweepHist, edited, pureVars>>

\* lines 181-184: the name is cut from the selected row, popped, the records
\* saved and the list refreshed
DeleteSelected ==
    /\ app = "running"
    /\ guiOps < MaxGuiOps
    /\ \E sel \in 1..Len(listbox) :
          /\ birthdays' = DictPop(birthdays, SplitFirst(listbox[sel]))
          /\ lastSel' = sel
    /\ dataFile' = Items(birthdays')
    /\ listbox' = refresh_list(birthdays')
    /\ edited' = (edited \/ EditsSweep(birthdays'))
    /\ guiOps' = guiOps + 1
    /\ lastOp' = "delete"
    /\ UNCHANGED <<now, schedVars, config, lastArg, sweepHist, pureVars>>

delete_birthday == DeleteNoSelection \/ DeleteSelected

Next ==
    \/ RegisterJob
    \/ RegisterRaises
    \/ RunPendingIdle
    \/ StartSweep
    \/ IterSizeChanged
    \/ IterEnd
    \/ IterKeysChanged
    \/ IterCalcRaises
    \/ IterSkip
    \/ IterNotify
    \/ NotifyRaises
    \/ PopupOpens
    \/ PopupFails
    \/ NotifyReturns
    \/ Sleep
    \/ AddEmptyName
    \/ AddDateError
    \/ AddStored
    \/ DeleteNoSelection
    \/ DeleteSelected

Spec == Init /\ [][Next]_vars

(***************************************************************************)
(* get_next_birthday and should_notify on their own: each specification    *)
(* draws the arguments of one call and makes the call.                     *)
(***************************************************************************)

\* origin dates: the days 1 Jan 2000 + 0..OriginSpan (solar records) and
\* 1 Jan 2024 + 0..OriginSpan (lunar records)
OriginSpan == 365

\* values of today: the days 1 Jan 2024 + 0..TodaySpan
TodaySpan == 730

\* largest days_left of a call of should_notify
MaxDaysLeft == 2

\* largest day offset of a rule set
MaxOffset == 1

\* most priorities a rule set has an entry for
MaxRuleKeys == 2

SolarOrigins == { AddDays(Date(2000, 1, 1), k) : k \in 0..OriginSpan }

LunarOrigins ==
    { d \in { AddDays(Date(2024, 1, 1), k) : k \in 0..OriginSpan } : InLunarWindow(d) }

Todays == { AddDays(Date(2024, 1, 1), k) : k \in 0..TodaySpan }

\* the values of today for which both lunisolar years the code converts to
\* lie in the window
LunarTodays == { t \in Todays : t.year \in LunarYears /\ (t.year + 1) \in LunarYears }

CalcInputs ==
    [date : SolarOrigins, lunar : {FALSE}, today : Todays]
    \cup [date : LunarOrigins, lunar : {TRUE}, today : LunarTodays]

Priorities == 1..5

PolicyRuleSets ==
    UNION { [keys -> SUBSET (0..MaxOffset)] :
            keys \in { k \in SUBSET Priorities : Cardinality(k) <= MaxRuleKeys } }

\* the program at rest: nothing but the call under study happens
ProgramIdle ==
    /\ now = 0
    /\ NOTIFY_TIME = 0
    /\ configFile = "ok"
    /\ app = "running"
    /\ birthdays = <<>>
    /\ dataFile = <<>>
    /\ listbox = <<>>
    /\ pc = "start"
    /\ next_run = -1
    /\ today = NoDate
    /\ it = NoIter
    /\ sweepStarts = [d \in 0..MaxDays |-> 0]
    /\ snapshot = <<>>
    /\ evaluated = <<>>
    /\ reminders = <<>>
    /\ outcome = "none"
    /\ cause = "none"
    /\ computed = <<>>
    /\ active = 0
    /\ edited = FALSE
    /\ guiOps = 0
    /\ lastOp = "none"
    /\ lastArg = NoInput
    /\ lastSel = 0

InitCalc ==
    /\ ProgramIdle
    /\ REMIND_RULES = [p \in {} |-> {}]
    /\ calcArg \in CalcInputs
    /\ calcRet = [called |-> FALSE, ok |-> FALSE, val |-> NoDate]
    /\ polArg = NoPolArg
    /\ polRet = [called |-> FALSE, val |-> FALSE]

\* get_next_birthday(date_str, lunar) called while date.today() is today
CallNextBirthday ==
    /\ ~calcRet.called
    /\ LET r == get_next_birthday(calcArg.date, calcArg.lunar, calcArg.today)
       IN  calcRet' = [called |-> TRUE, ok |-> r.ok, val |-> r.val]
    /\ UNCHANGED <<now, schedVars, config, guiVars, sweepHist, edited, calcArg,
                   polArg, polRet>>

NextCalc == CallNextBirthday

SpecCalc == InitCalc /\ [][NextCalc]_vars

InitPolicy ==
    /\ ProgramIdle
    /\ REMIND_RULES \in PolicyRuleSets
    /\ calcArg = NoCalcArg
    /\ calcRet = [called |-> FALSE, ok |-> FALSE, val |-> NoDate]
    /\ polArg \in [days_left : 0..MaxDaysLeft, priority : Priorities]
    /\ polRet = [called |-> FALSE, val |-> FALSE]

\* should_notify(days_left, priority)
CallShouldNotify ==
    /\ ~polRet.called
    /\ polRet' = [called |-> TRUE,
                  val |-> should_notify(polArg.days_left, polArg.priority, REMIND_RULES)]
    /\ UNCHANGED <<now, schedVars, config, guiVars, sweepHist, edited, calcArg,
                   calcRet, polArg>>

NextPolicy == CallShouldNotify

SpecPolicy == InitPolicy /\ [][NextPolicy]_vars

(***************************************************************************)
(* The claims.                                                             *)
(***************************************************************************)

Days == 0..MaxDays

\* C1: on every calendar day check_birthdays is started at most once,
\* whatever the polling instants and however long a sweep takes.
C1_AtMostOncePerDay == \A d \in Days : sweepStarts[d] <= 1

\* C2: a calendar day on which the scheduler thread is running and the
\* time reaches or has passed NOTIFY_TIME does not end without a sweep
\* having been started on it (the day the process is started included).
C2_NoDaySkipped ==
    \A d \in Days : (d < DayOf(now) /\ pc # "dead") => sweepStarts[d] >= 1

SolarCall == calcRet.called /\ ~calcArg.lunar

\* C3: for a non-lunar record get_next_birthday returns a date on or after
\* today and at most 366 days after it.
C3_SolarWithinYear ==
    SolarCall =>
        /\ calcRet.ok
        /\ ToOrdinal(calcRet.val) >= ToOrdinal(calcArg.today)
        /\ ToOrdinal(calcRet.val) <= ToOrdinal(calcArg.today) + 366

\* the civil dates of the record's lunisolar month/day, one per lunisolar year
LunarOccurrences(date_str) ==
    { toSolarDate(fromSolarDate(date_str), y).val :
        y \in { yy \in LunarYears : toSolarDate(fromSolarDate(date_str), yy).ok } }

\* C4: for a lunar record the date get_next_birthday returns is on or after
\* today, and no civil occurrence of the record's lunisolar month/day lies
\* between today (inclusive) and the returned date (exclusive).
C4_LunarEarliest ==
    (calcRet.called /\ calcArg.lunar /\ calcRet.ok) =>
        /\ ToOrdinal(calcRet.val) >= ToOrdinal(calcArg.today)
        /\ \A c \in LunarOccurrences(calcArg.date) :
              ~(/\ ToOrdinal(calcArg.today) <= ToOrdinal(c)
                /\ ToOrdinal(c) < ToOrdinal(calcRet.val))

\* the year a 29 February record recurs in, when that year is no leap year:
\* today's year while 28 February has not passed, the next year after
\* 29 February of a leap year; 0 otherwise
Feb29Target(t) ==
    IF ~IsLeap(t.year) /\ ToOrdinal(t) <= ToOrdinal(Date(t.year, 2, 28)) THEN t.year
    ELSE IF IsLeap(t.year) /\ ToOrdinal(t) > ToOrdinal(Date(t.year, 2, 29)) THEN t.year + 1
    ELSE 0

\* C5: for a non-lunar record of 29 February, when the target year is no
\* leap year, get_next_birthday returns the fallback date of that year
\* (28 February or 1 March) instead of failing.
C5_Feb29Fallback ==
    (/\ SolarCall
     /\ calcArg.date.month = 2
     /\ calcArg.date.day = 29
     /\ Feb29Target(calcArg.today) # 0) =>
        /\ calcRet.ok
        /\ calcRet.val \in { Date(Feb29Target(calcArg.today), 2, 28),
                             Date(Feb29Target(calcArg.today), 3, 1) }

\* the trigger policy as the claim states it
InTriggerSet(days_left, priority, rules) ==
    \/ \E p \in DOMAIN rules : p = priority /\ days_left \in rules[p]
    \/ (\A p \in DOMAIN rules : p # priority) /\ days_left = 0

\* C6: should_notify returns true if and only if days_left is in the rule
\* set's entry for the priority, a priority without entry having the set
\* {0}; the call returns for every input and changes neither the rule set
\* nor the records.
C6_ShouldNotifyIff ==
    /\ [](polRet.called =>
            (polRet.val <=> InTriggerSet(polArg.days_left, polArg.priority, REMIND_RULES)))
    /\ [](~polRet.called => ENABLED CallShouldNotify)
    /\ [][UNCHANGED <<REMIND_RULES, birthdays, dataFile, polArg>>]_vars

\* C6: a call for a priority without entry, with other priorities
\* configured, on the day itself: the default set {0} decides, and fires
C6_Witness ==
    /\ polRet.called
    /\ polRet.val
    /\ polArg.priority \notin DOMAIN REMIND_RULES
    /\ DOMAIN REMIND_RULES # {}
    /\ polArg.days_left = 0

\* a sweep that has ended, that no GUI handler interleaved with, that no
\* delivery failure ended and during which the date did not change
QuietSweepEnded ==
    /\ outcome \in {"done", "failed"}
    /\ cause \in {"none", "calc"}
    /\ ~edited
    /\ Today(now) = today

\* the record's occurrence can be computed for the sweep's day and its
\* days_left is in the trigger set of its priority
Due(e) ==
    LET r == get_next_birthday(e.date, e.lunar, today) IN
    /\ r.ok
    /\ InTriggerSet(ToOrdinal(r.val) - ToOrdinal(today), e.priority, REMIND_RULES)

DueEvent(e) ==
    Event(e.name,
          ToOrdinal(get_next_birthday(e.date, e.lunar, today).val) - ToOrdinal(today),
          e.priority)

SeqToSet(q) == { q[i] : i \in 1..Len(q) }

\* C7: a sweep emits exactly one reminder (name, days_left, priority) for
\* each record that is due and none for any other record, wherever the
\* records stand in the iteration order.
C7_ExactlyTheDue ==
    QuietSweepEnded =>
        /\ SeqToSet(reminders) = { DueEvent(e) : e \in { x \in SeqToSet(snapshot) : Due(x) } }
        /\ \A i, j \in 1..Len(reminders) : reminders[i] = reminders[j] => i = j

\* C8: when the occurrence calculation fails for a record, the sweep skips
\* it and still evaluates the others: every other record that is due gets
\* its reminder.
C8_FailureSkipped ==
    QuietSweepEnded =>
        \A e \in SeqToSet(snapshot) : Due(e) => DueEvent(e) \in SeqToSet(reminders)

\* C9: a sweep that raises does not end the scheduler loop.
C9_LoopSurvives == outcome = "failed" => pc # "dead"

IsPrefix(p, q) == Len(p) <= Len(q) /\ \A i \in 1..Len(p) : p[i] = q[i]

\* C10: a sweep evaluates the records as they were when it started, one
\* after the other, all of them when it completes, and no interleaving of
\* add_birthday or delete_birthday makes it fail.
C10_PointInTime ==
    /\ cause \notin {"size", "keys"}
    /\ outcome \in {"running", "done"} => IsPrefix(evaluated, snapshot)
    /\ outcome = "done" => evaluated = snapshot

\* C11: at most one sweep is in progress at any time, and the sweeps of
\* distinct days are totally ordered: while the sweep of one day is in
\* progress no sweep of a later day has started.
C11_OneSweepAtATime ==
    /\ active \in {0, 1}
    /\ active = 1 <=> outcome = "running"
    /\ outcome = "running" =>
          \A d \in 0..MaxDays :
              d > ToOrdinal(today) - ToOrdinal(StartDate) => sweepStarts[d] = 0

\* the sweep of a later day is in progress after a sweep of an earlier day
C11_Witness ==
    /\ outcome = "running"
    /\ active = 1
    /\ \E d \in 0..MaxDays :
          d < ToOrdinal(today) - ToOrdinal(StartDate) /\ sweepStarts[d] >= 1

\* C12: a failure of the delivery mechanism inside notify does not
\* propagate: it neither makes the sweep fail nor ends the scheduler loop.
C12_DeliveryContained == cause = "notify" => (outcome # "failed" /\ pc # "dead")

WellFormed(e) == e.name # <<>> /\ ValidDate(e.date) /\ e.priority \in 1..5

\* C13: every record a sweep evaluates has a non-empty name, a valid civil
\* date and a priority in 1..5; a record that is not so is left out of the
\* sweep and never makes it fail.
C13_EvaluatedWellFormed ==
    /\ \A i \in 1..Len(evaluated) : WellFormed(evaluated[i])
    /\ cause = "calc" => \A e \in SeqToSet(snapshot) : WellFormed(e)

\* C14: when the configuration is missing, unreadable, not JSON, has a rule
\* key that is not an integer or a malformed notify time, the program keeps
\* running with the defaults (09:00, the trigger set {0} for every priority)
\* and the scheduler thread registers its job and goes on.
C14_DefaultsOnBadConfig ==
    configFile # "ok" =>
        /\ app = "running"
        /\ NOTIFY_TIME = DefaultNotifyTime
        /\ \A p \in Priorities : RulesGet(REMIND_RULES, p) = {0}
        /\ ~(pc = "dead" /\ next_run = -1)

\* C15: a sweep leaves the records and the data file as they are: every
\* step that changes either of them is a step of add_birthday or of
\* delete_birthday.
C15_SweepKeepsRecords ==
    [][(birthdays' # birthdays \/ dataFile' # dataFile) =>
           (guiOps' = guiOps + 1 /\ lastOp' \in {"add", "delete"})]_vars

\* a sweep went through records and ended with no handler run: the records
\* and the file are what they were when it started
C15_Witness ==
    /\ outcome \in {"done", "failed"}
    /\ Len(evaluated) >= 1
    /\ guiOps = 0
    /\ Items(birthdays) = snapshot
    /\ dataFile = snapshot

\* C16: a sweep that started never waits for an external event: while it
\* is in progress the scheduler thread is never held in the pop-up, which
\* only the user's dismissal ends.
C16_NoExternalWait == outcome = "running" => pc # "popup"

\* C17: for every record a sweep evaluated, days_left is non-negative and
\* is the next occurrence, computed against the sweep's day, minus the
\* sweep's day.
C17_OneToday ==
    \A i \in 1..Len(computed) :
        LET e == computed[i].entry
            n == get_next_birthday(e.date, e.lunar, today)
        IN  /\ computed[i].days_left >= 0
            /\ n.ok
            /\ computed[i].days_left = ToOrdinal(n.val) - ToOrdinal(today)

LiveSet(b) == SeqToSet(Items(b))

\* C18: add_birthday with a name that is empty after stripping, or with a
\* date that does not parse, reports an error and leaves the records and
\* the data file unchanged; with valid input it leaves exactly one record
\* of that name, holding the input, leaves every other record unchanged,
\* and saves the records.
C18_AddContract ==
    [][(guiOps' = guiOps + 1 /\ lastOp' \in {"empty_name", "date_error", "add"}) =>
           LET in == lastArg'
               n  == Strip(in.name)
           IN  IF n = <<>> \/ ~ValidDate(in.date)
               THEN /\ lastOp' \in {"empty_name", "date_error"}
                    /\ birthdays' = birthdays
                    /\ dataFile' = dataFile
               ELSE /\ lastOp' = "add"
                    /\ Len(SelectSeq(birthdays', LAMBDA e : e.live /\ e.name = n)) = 1
                    /\ Entry(n, in.date, in.lunar, in.priority) \in LiveSet(birthdays')
                    /\ { e \in LiveSet(birthdays') : e.name # n }
                          = { e \in LiveSet(birthdays) : e.name # n }
                    /\ dataFile' = Items(birthdays')]_vars

\* add_birthday replaced the record "a" and left "b" alone
C18_Witness ==
    /\ lastOp = "add"
    /\ guiOps = 1
    /\ lastArg.name = <<"a">>
    /\ LiveSet(birthdays) = {Entry(<<"a">>, Date(2024, 3, 1), FALSE, 1), recB}

\* C19: delete_birthday removes exactly the record shown on the selected
\* row and no other; with no row selected it changes nothing.
C19_DeleteExactlyTheRow ==
    [][(guiOps' = guiOps + 1 /\ lastOp' \in {"no_selection", "delete"}) =>
           IF lastOp' = "no_selection"
           THEN birthdays' = birthdays /\ dataFile' = dataFile
           ELSE /\ LiveSet(birthdays') = LiveSet(birthdays) \ {SortedItems(birthdays)[lastSel']}
                /\ dataFile' = Items(birthdays')]_vars

====
